---- MODULE Spec2Model ----
(***************************************************************************)
(* Model of checksum.core.ChecksumEngine (src/checksum/core.py):           *)
(* calculate_hash, verify_checksum and verify_checksum_file, together with *)
(* the file system they read and the other processes that may change it.   *)
(*                                                                         *)
(* Strings are sequences of one-character strings, so that lower(),        *)
(* strip(), split(), the substring test and the os.path functions are      *)
(* computed character by character as Python computes them.                *)
(***************************************************************************)
EXTENDS Integers, Sequences, FiniteSets, TLC

\* ------------------------------------------------------------------ bounds
MaxLen == 3        \* longest data file (bytes) chosen when an operation starts
MaxChunk == 2      \* largest small chunk size tried by the read loop
MaxEnvSteps == 1   \* changes other processes make to a file during one operation
MaxLines == 2      \* longest manifest (lines)

\* the chunk size of the read loop, 1024 * 1024
CHUNK_SIZE == 1048576

Bytes == {0, 1}

\* -------------------------------------------------------- character strings
Min(a, b) == IF a < b THEN a ELSE b
Max(a, b) == IF a < b THEN b ELSE a

\* str.lower() on one character
Lower(c) ==
    CASE c = "A" -> "a" [] c = "B" -> "b" [] c = "C" -> "c" [] c = "D" -> "d"
      [] c = "E" -> "e" [] c = "F" -> "f" [] c = "H" -> "h" [] c = "M" -> "m"
      [] c = "S" -> "s" [] c = "U" -> "u" [] OTHER -> c

\* str.lower()
LowerStr(s) == [i \in 1..Len(s) |-> Lower(s[i])]

\* str.upper() on one character, used only to build mixed-case inputs
Upper(c) ==
    CASE c = "a" -> "A" [] c = "b" -> "B" [] c = "c" -> "C" [] c = "d" -> "D"
      [] c = "e" -> "E" [] c = "f" -> "F" [] c = "h" -> "H" [] c = "m" -> "M"
      [] c = "s" -> "S" [] c = "u" -> "U" [] OTHER -> c

UpperStr(s) == [i \in 1..Len(s) |-> Upper(s[i])]

\* the `in` operator on strings: sub occurs in s
Contains(s, sub) ==
    \E i \in 0..(Len(s) - Len(sub)) : SubSeq(s, i + 1, i + Len(sub)) = sub

StartsWith(s, pre) == Len(s) >= Len(pre) /\ SubSeq(s, 1, Len(pre)) = pre

Whitespace == {" ", "\t", "\n"}

RECURSIVE LStrip(_)
LStrip(s) ==
    IF s # <<>> /\ Head(s) \in Whitespace THEN LStrip(Tail(s)) ELSE s

RECURSIVE RStrip(_)
RStrip(s) ==
    IF s # <<>> /\ s[Len(s)] \in Whitespace
    THEN RStrip(SubSeq(s, 1, Len(s) - 1)) ELSE s

\* str.strip()
Strip(s) == RStrip(LStrip(s))

\* length of the longest prefix of s without whitespace
RECURSIVE TokenLen(_)
TokenLen(s) ==
    IF s = <<>> \/ Head(s) \in Whitespace THEN 0 ELSE 1 + TokenLen(Tail(s))

\* str.split(None, 1): at most two parts, split at the first run of whitespace
Split1(s) ==
    LET s1 == LStrip(s)
        n == TokenLen(s1)
        rest == LStrip(SubSeq(s1, n + 1, Len(s1)))
    IN  IF s1 = <<>> THEN <<>>
        ELSE IF rest = <<>> THEN <<SubSeq(s1, 1, n)>>
        ELSE <<SubSeq(s1, 1, n), rest>>

\* ----------------------------------------------------------------- os.path
\* index of the last "/" of p, 0 when there is none (p.rfind('/') + 1)
RECURSIVE LastSlash(_)
LastSlash(p) ==
    IF p = <<>> THEN 0
    ELSE IF p[Len(p)] = "/" THEN Len(p)
    ELSE LastSlash(SubSeq(p, 1, Len(p) - 1))

RECURSIVE RStripSlash(_)
RStripSlash(p) ==
    IF p # <<>> /\ p[Len(p)] = "/"
    THEN RStripSlash(SubSeq(p, 1, Len(p) - 1)) ELSE p

\* os.path.dirname
DirName(p) ==
    LET head == SubSeq(p, 1, LastSlash(p))
    IN  IF head # <<>> /\ RStripSlash(head) # <<>> THEN RStripSlash(head) ELSE head

\* os.path.basename
BaseName(p) == SubSeq(p, LastSlash(p) + 1, Len(p))

\* os.path.join(a, b)
JoinPath(a, b) ==
    IF StartsWith(b, <<"/">>) THEN b
    ELSE IF a = <<>> \/ a[Len(a)] = "/" THEN a \o b
    ELSE a \o <<"/">> \o b

\* the slashes of a path collapsed and the trailing one dropped
RECURSIVE Norm(_)
Norm(p) ==
    IF Len(p) <= 1 THEN p
    ELSE IF p[1] = "/" /\ p[2] = "/" THEN Norm(Tail(p))
    ELSE IF Len(p) = 2 /\ p[2] = "/" THEN <<p[1]>>
    ELSE <<p[1]>> \o Norm(Tail(p))

\* the place in the file system that the path p names for a process whose
\* working directory is wd: an absolute path is taken as it is, a relative
\* one is looked up from wd
AbsOf(wd, p) ==
    IF StartsWith(p, <<"/">>) THEN Norm(p) ELSE Norm(wd \o <<"/">> \o p)

\* ------------------------------------------------------------------ hashlib
MD5 == <<"m", "d", "5">>
SHA1 == <<"s", "h", "a", "1">>
SHA256 == <<"s", "h", "a", "2", "5", "6">>
SHA512 == <<"s", "h", "a", "5", "1", "2">>

supported_algorithms == {MD5, SHA1, SHA256, SHA512}

HexChars ==
    <<"0", "1", "2", "3", "4", "5", "6", "7",
      "8", "9", "a", "b", "c", "d", "e", "f">>

\* hashlib.<alg>(): the digest state before any byte was fed
NewHash(a) ==
    CASE a = MD5 -> 171 [] a = SHA1 -> 205 [] a = SHA256 -> 239 [] OTHER -> 90

\* h.update(chunk): the bytes of the chunk enter the state one by one, in order
RECURSIVE HashUpdate(_, _)
HashUpdate(st, chunk) ==
    IF chunk = <<>> THEN st
    ELSE HashUpdate((st * 5 + Head(chunk) + 3) % 256, Tail(chunk))

\* h.hexdigest(): lowercase hexadecimal
HexDigest(st) == <<HexChars[(st \div 16) + 1], HexChars[(st % 16) + 1]>>


\* -------------------------------------------------------------- file system
NoFile == [kind |-> "none", data |-> <<>>]
Directory == [kind |-> "dir", data |-> <<>>]
RegularFile(d) == [kind |-> "file", data |-> d]

RECURSIVE SeqsUpTo(_, _)
SeqsUpTo(S, n) ==
    IF n = 0 THEN {<<>>}
    ELSE LET shorter == SeqsUpTo(S, n - 1)
         IN  shorter \cup {Append(q, x) : q \in {r \in shorter : Len(r) = n - 1}, x \in S}

Contents == SeqsUpTo(Bytes, MaxLen)
Files == {RegularFile(d) : d \in Contents} \cup {NoFile, Directory}

\* the working directories a caller may have
Cwds == {<<"/">>, <<"/", "w">>}

\* inputs of calculate_hash and verify_checksum
CalcPaths == {<<"a">>}
AlgorithmInputs ==
    {SHA256, <<"S", "H", "A", "2", "5", "6">>, MD5, <<"c", "r", "c">>}
ChunkSizes == (1..MaxChunk) \cup {CHUNK_SIZE}

\* the digest of the bytes d under algorithm a, computed in one piece
DigestOf(a, d) == HexDigest(HashUpdate(NewHash(a), d))

\* expected digests a caller may pass for a file with the given content: the
\* digest itself, in upper case, in mixed case, a wrong one and the empty string
ExpectedInputs(a, d) ==
    LET hex == DigestOf(LowerStr(a), d)
    IN  {hex, UpperStr(hex), <<Upper(hex[1]), hex[2]>>, <<"z", "z">>, <<>>}

\* ------------------------------------------------------- manifests (inputs)
\* manifest paths: the three names of the documentation, names in a
\* directory, a directory whose own name holds a hint, names with two hints
ManifestPaths ==
    { <<"S", "H", "A", "5", "1", "2", "S", "U", "M", "S">>,
      <<"m", "d", "5", "s", "u", "m", ".", "t", "x", "t">>,
      <<"c", "h", "e", "c", "k", "s", "u", "m", "s", ".", "t", "x", "t">>,
      <<"s", "/", "s", "h", "a", "1">>,
      <<"/", "s", "/", "S", "H", "A", "2", "5", "6", "S", "U", "M", "S">>,
      <<"m", "d", "5", "/", "s", "u", "m", "s">>,
      <<"s", "/", "s", "h", "a", "1", "M", "D", "5">>,
      <<"s", "h", "a", "5", "1", "2", "s", "h", "a", "1">> }

\* the manifest path under which manifests of every length are followed
LongManifestPaths ==
    { <<"/", "s", "/", "S", "H", "A", "2", "5", "6", "S", "U", "M", "S">> }

\* file names a manifest line may hold
FileTokens == {<<"a">>, <<"b">>, <<"d">>, <<"/", "a">>}

\* the bytes of the data files: those in a directory s, those elsewhere
DataInS == <<0, 1>>
DataElsewhere == <<1>>

\* the lines a manifest may hold, as iterating over the file yields them
ManifestLines ==
    { <<"\n">>,
      <<" ", "#", "c", " ", "x", "\n">>,
      <<"z", "z", "\n">>,
      DigestOf(SHA256, DataInS) \o <<" ", "a", "\n">>,
      UpperStr(DigestOf(MD5, DataInS)) \o <<" ", " ", "a", "\n">>,
      DigestOf(SHA1, DataInS) \o <<" ", "b", "\n">>,
      DigestOf(SHA512, DataInS) \o <<"\t", "/", "a", "\n">>,
      DigestOf(SHA256, DataInS) \o <<" ", "d">> }

\* a manifest path names no file, a directory, or a text file of lines
NoManifest == [kind |-> "none", lines |-> <<>>]
ManifestDirectory == [kind |-> "dir", lines |-> <<>>]
TextFile(ls) == [kind |-> "file", lines |-> ls]

\* the calls of verify_checksum_file: every manifest path from every working
\* directory with a manifest of at most one line, and every manifest of up to
\* MaxLines lines under the paths of LongManifestPaths
ManifestInputs ==
    {[wd |-> w, path |-> p, file |-> m] :
        w \in Cwds, p \in ManifestPaths,
        m \in {NoManifest, ManifestDirectory}
              \cup {TextFile(ls) : ls \in SeqsUpTo(ManifestLines, 1)}}
    \cup
    {[wd |-> <<"/">>, path |-> p, file |-> TextFile(ls)] :
        p \in LongManifestPaths, ls \in SeqsUpTo(ManifestLines, MaxLines)}

\* every place a path of the model can name
Places ==
    {AbsOf(w, q) : w \in Cwds, q \in CalcPaths}
    \cup {AbsOf(w, JoinPath(DirName(p), t)) :
            w \in Cwds, p \in ManifestPaths, t \in FileTokens}
    \cup {AbsOf(w, t) : w \in Cwds, t \in FileTokens}

\* no file anywhere
EmptyFS == [p \in Places |-> NoFile]

\* the data files distributed with the manifests: in every directory a file a,
\* a directory d and no b
ManifestFS ==
    [p \in Places |->
        IF BaseName(p) = <<"a">>
        THEN RegularFile(IF Contains(p, <<"/", "s", "/">>)
                         THEN DataInS ELSE DataElsewhere)
        ELSE IF BaseName(p) = <<"d">> THEN Directory
        ELSE NoFile]

VARIABLES
    cwd,            \* working directory of the calling process
    fs,             \* the file system: place -> file
    op,             \* the operation the caller invoked
    pc,             \* position in the code
    file_path, algorithm, expected_hash, chunk_size,   \* arguments
    alg, h, f, result,      \* locals of calculate_hash; f is the open file
    vresult,                \* return value of verify_checksum
    checksum_file,          \* argument of verify_checksum_file
    manifest,               \* the file checksum_file names
    mf_open,                \* the manifest is open
    base_dir, m_algorithm, line_num, filename, results,   \* its locals
    out,                    \* return value of the invoked operation
    fed,            \* the bytes h.update received, in order
    max_held,       \* size of the largest chunk held
    reads,          \* number of f.read calls
    opens,          \* number of open() attempts on file_path
    existed,        \* outcome of os.path.exists(file_path)
    env_steps       \* changes made by other processes during the operation

calcVars == <<alg, h, f, result>>
ghostVars == <<fed, max_held, reads, opens, existed>>
argVars == <<file_path, algorithm, expected_hash, chunk_size>>
mfVars == <<checksum_file, manifest, mf_open, base_dir, m_algorithm, line_num,
            filename, results>>
vars == <<cwd, fs, op, pc, argVars, calcVars, vresult, mfVars, out, ghostVars,
          env_steps>>

Closed == [open |-> FALSE, data |-> <<>>, pos |-> 0, linked |-> FALSE]
Unset == [success |-> FALSE, error |-> <<"unset">>]

\* the place file_path names
Place == AbsOf(cwd, file_path)

\* a faulty variant of PathExists: the test always passes
PathExistsAlways(p) == TRUE

\* the file at a place: none where the file system holds nothing
FileAt(place) == IF place \in DOMAIN fs THEN fs[place] ELSE NoFile

\* os.path.exists(p)
PathExists(p) == FileAt(AbsOf(cwd, p)).kind # "none"

\* number of file handles the engine holds open
Handles == (IF f.open THEN 1 ELSE 0) + (IF mf_open THEN 1 ELSE 0)

Init ==
    /\ cwd = <<"/">>
    /\ fs = EmptyFS
    /\ op = "none"
    /\ pc = "idle"
    /\ file_path = <<>> /\ algorithm = <<>> /\ expected_hash = <<>>
    /\ chunk_size = CHUNK_SIZE
    /\ alg = <<>> /\ h = 0 /\ f = Closed /\ result = Unset
    /\ vresult = Unset
    /\ checksum_file = <<>> /\ manifest = NoManifest /\ mf_open = FALSE
    /\ base_dir = <<>> /\ m_algorithm = <<>> /\ line_num = 0
    /\ filename = <<>> /\ results = <<>>
    /\ out = Unset
    /\ fed = <<>> /\ max_held = 0 /\ reads = 0 /\ opens = 0 /\ existed = FALSE
    /\ env_steps = 0

\* a caller invokes calculate_hash(file_path, algorithm)
CallCalculateHash ==
    /\ pc = "idle"
    /\ \E wd \in Cwds, path \in CalcPaths, a \in AlgorithmInputs,
          c \in ChunkSizes, file \in Files :
        /\ cwd' = wd
        /\ fs' = [EmptyFS EXCEPT ![AbsOf(wd, path)] = file]
        /\ file_path' = path /\ algorithm' = a /\ chunk_size' = c
    /\ op' = "calc"
    /\ pc' = "calc_alg"
    /\ UNCHANGED <<expected_hash, calcVars, vresult, mfVars, out, ghostVars,
                   env_steps>>

\* a caller invokes verify_checksum(file_path, expected_hash, algorithm)
CallVerifyChecksum ==
    /\ pc = "idle"
    /\ \E wd \in Cwds, path \in CalcPaths, a \in AlgorithmInputs,
          c \in ChunkSizes, file \in Files :
        \E e \in ExpectedInputs(a, file.data) :
            /\ cwd' = wd
            /\ fs' = [EmptyFS EXCEPT ![AbsOf(wd, path)] = file]
            /\ file_path' = path /\ algorithm' = a /\ chunk_size' = c
            /\ expected_hash' = e
    /\ op' = "verify"
    /\ pc' = "calc_alg"
    /\ UNCHANGED <<calcVars, vresult, mfVars, out, ghostVars, env_steps>>

\* a caller invokes verify_checksum_file(checksum_file)
CallVerifyChecksumFile ==
    /\ pc = "idle"
    /\ \E in \in ManifestInputs :
        /\ cwd' = in.wd
        /\ checksum_file' = in.path
        /\ manifest' = in.file
    /\ fs' = ManifestFS
    /\ op' = "manifest"
    /\ pc' = "mf_exists"
    /\ UNCHANGED <<argVars, calcVars, vresult, mf_open, base_dir, m_algorithm,
                   line_num, filename, results, out, ghostVars, env_steps>>

\* calculate_hash, lines 33-38: the algorithm is lowercased and looked up
CalcCheckAlgorithm ==
    /\ pc = "calc_alg"
    /\ alg' = LowerStr(algorithm)
    /\ IF LowerStr(algorithm) \notin supported_algorithms
       THEN /\ result' = [success |-> FALSE,
                          error |-> <<"Unsupported algorithm", algorithm>>]
            /\ pc' = "calc_ret"
       ELSE /\ result' = result
            /\ pc' = "calc_exists"
    /\ UNCHANGED <<cwd, fs, op, argVars, h, f, vresult, mfVars, out, ghostVars,
                   env_steps>>

\* calculate_hash, lines 40-41
CalcCheckExists ==
    /\ pc = "calc_exists"
    /\ existed' = PathExists(file_path)
    /\ IF ~PathExists(file_path)
       THEN /\ result' = [success |-> FALSE,
                          error |-> <<"File not found", file_path>>]
            /\ pc' = "calc_ret"
       ELSE /\ result' = result
            /\ pc' = "calc_open"
    /\ UNCHANGED <<cwd, fs, op, argVars, alg, h, f, vresult, mfVars, out,
                   fed, max_held, reads, opens, env_steps>>

\* calculate_hash, lines 44-45: the digest is created and the file opened; an
\* open() that raises is caught at line 56
CalcOpen ==
    /\ pc = "calc_open"
    /\ h' = NewHash(alg)
    /\ opens' = opens + 1
    /\ IF FileAt(Place).kind = "file"
       THEN /\ f' = [open |-> TRUE, data |-> FileAt(Place).data, pos |-> 0,
                     linked |-> TRUE]
            /\ result' = result
            /\ pc' = "calc_read"
       ELSE /\ f' = f
            /\ result' = [success |-> FALSE,
                          error |-> <<"OSError",
                                      IF FileAt(Place).kind = "dir"
                                      THEN <<"EISDIR">> ELSE <<"ENOENT">>>>]
            /\ pc' = "calc_ret"
    /\ UNCHANGED <<cwd, fs, op, argVars, alg, vresult, mfVars, out,
                   fed, max_held, reads, existed, env_steps>>

\* a faulty variant of ReadChunk: the rest of the file is read in one piece
ReadChunkWholeFile(file, n) ==
    SubSeq(file.data, file.pos + 1, Len(file.data))

\* f.read(n): the next n bytes of the open file, fewer at its end
ReadChunk(file, n) ==
    SubSeq(file.data, file.pos + 1, Min(file.pos + n, Len(file.data)))

\* calculate_hash, lines 46-47: one turn of the read loop
CalcRead ==
    /\ pc = "calc_read"
    /\ LET chunk == ReadChunk(f, chunk_size)
       IN  /\ reads' = reads + 1
           /\ max_held' = Max(max_held, Len(chunk))
           /\ IF chunk = <<>>
              THEN /\ pc' = "calc_close"
                   /\ UNCHANGED <<h, f, fed>>
              ELSE /\ h' = HashUpdate(h, chunk)
                   /\ f' = [f EXCEPT !.pos = f.pos + Len(chunk)]
                   /\ fed' = fed \o chunk
                   /\ pc' = "calc_read"
    /\ UNCHANGED <<cwd, fs, op, argVars, alg, result, vresult, mfVars, out,
                   opens, existed, env_steps>>

\* a faulty variant of CalcReadError: the file is left open when f.read raises
CalcReadErrorLeak ==
    /\ pc = "calc_read"
    /\ env_steps < MaxEnvSteps
    /\ env_steps' = env_steps + 1
    /\ f' = f
    /\ result' = [success |-> FALSE, error |-> <<"OSError", <<"EIO">>>>]
    /\ pc' = "calc_ret"
    /\ UNCHANGED <<cwd, fs, op, argVars, alg, h, vresult, mfVars, out, ghostVars>>

\* calculate_hash, lines 45-47 and 56-57: f.read raises (a device error); the
\* with statement closes the file and the exception becomes the result
CalcReadError ==
    /\ pc = "calc_read"
    /\ env_steps < MaxEnvSteps
    /\ env_steps' = env_steps + 1
    /\ f' = [f EXCEPT !.open = FALSE]
    /\ result' = [success |-> FALSE, error |-> <<"OSError", <<"EIO">>>>]
    /\ pc' = "calc_ret"
    /\ UNCHANGED <<cwd, fs, op, argVars, alg, h, vresult, mfVars, out, ghostVars>>

\* calculate_hash, line 45: the with statement ends and closes the file
CalcClose ==
    /\ pc = "calc_close"
    /\ f' = [f EXCEPT !.open = FALSE]
    /\ pc' = "calc_size"
    /\ UNCHANGED <<cwd, fs, op, argVars, alg, h, result, vresult, mfVars, out,
                   ghostVars, env_steps>>

\* os.path.getsize(p) of an existing file
GetSize(p) == Len(FileAt(AbsOf(cwd, p)).data)

\* calculate_hash, lines 49-57: the result is built; os.path.getsize raises
\* when the file is gone, which line 56 catches
CalcResult ==
    /\ pc = "calc_size"
    /\ IF PathExists(file_path)
       THEN result' = [success |-> TRUE,
                       algorithm |-> alg,
                       hash_value |-> HexDigest(h),
                       file_path |-> file_path,
                       file_size |-> GetSize(file_path)]
       ELSE result' = [success |-> FALSE, error |-> <<"OSError", <<"ENOENT">>>>]
    /\ pc' = "calc_ret"
    /\ UNCHANGED <<cwd, fs, op, argVars, alg, h, f, vresult, mfVars, out,
                   ghostVars, env_steps>>

\* calculate_hash returns to the caller that invoked it
CalcReturn ==
    /\ pc = "calc_ret"
    /\ IF op = "calc"
       THEN out' = result /\ pc' = "done"
       ELSE out' = out /\ pc' = "ver_cmp"
    /\ UNCHANGED <<cwd, fs, op, argVars, calcVars, vresult, mfVars, ghostVars,
                   env_steps>>

\* a faulty variant of DigestsMatch: compared without lowercasing
DigestsMatchCaseSensitive(calculated_hash, expected) ==
    calculated_hash = expected

\* verify_checksum, lines 76-78: both digests lowercased and compared
DigestsMatch(calculated_hash, expected) ==
    LowerStr(calculated_hash) = LowerStr(expected)

\* verify_checksum, lines 73-88: the value it returns for calculate_hash's result
VerifyResult(r, path, expected, a) ==
    IF ~r.success THEN r
    ELSE [success |-> TRUE,
          match |-> DigestsMatch(r.hash_value, expected),
          file_path |-> path,
          file_size |-> r.file_size,
          algorithm |-> LowerStr(a),
          expected_hash |-> LowerStr(expected),
          calculated_hash |-> LowerStr(r.hash_value)]

\* verify_checksum, lines 73-88
VerifyCompare ==
    /\ pc = "ver_cmp"
    /\ vresult' = VerifyResult(result, file_path, expected_hash, algorithm)
    /\ IF op = "verify"
       THEN /\ out' = VerifyResult(result, file_path, expected_hash, algorithm)
            /\ pc' = "done"
       ELSE /\ out' = out
            /\ pc' = "mf_attach"
    /\ UNCHANGED <<cwd, fs, op, argVars, calcVars, mfVars, ghostVars, env_steps>>

\* ------------------------------------------------------ verify_checksum_file
\* a faulty variant of DetectAlgorithm: sha1 tested before md5
DetectAlgorithmSha1First(path) ==
    LET name == LowerStr(BaseName(path))
    IN  IF Contains(name, SHA1) THEN SHA1
        ELSE IF Contains(name, MD5) THEN MD5
        ELSE IF Contains(name, SHA512) THEN SHA512
        ELSE SHA256

\* verify_checksum_file, lines 112-120: the algorithm named by the manifest's
\* base file name
DetectAlgorithm(path) ==
    LET name == LowerStr(BaseName(path))
    IN  IF Contains(name, MD5) THEN MD5
        ELSE IF Contains(name, SHA1) THEN SHA1
        ELSE IF Contains(name, SHA512) THEN SHA512
        ELSE SHA256

\* verify_checksum_file, line 109
BaseDir(path) == DirName(path)

\* a faulty variant of IsSkipped: comments are not skipped
IsSkippedBlankOnly(line) == line = <<>>

\* verify_checksum_file, line 125, of a stripped line
IsSkipped(line) == line = <<>> \/ StartsWith(line, <<"#">>)

\* a faulty variant of EntryPath: the name is used as it stands
EntryPathFromCwd(dir, name) == name

\* verify_checksum_file, line 139
EntryPath(dir, name) == JoinPath(dir, name)

\* a faulty variant of InvalidFormat: lines numbered from 0
InvalidFormatFromZero(n) ==
    [line |-> n - 1, error |-> <<"Invalid format">>, success |-> FALSE]

\* verify_checksum_file, lines 131-135
InvalidFormat(n) ==
    [line |-> n, error |-> <<"Invalid format">>, success |-> FALSE]

\* verify_checksum_file, lines 143-144: result['line'], result['filename']
Attach(r, n, name) == [line |-> n, filename |-> name] @@ r

\* dict.get(key, default)
Get(r, key, default) == IF key \in DOMAIN r THEN r[key] ELSE default

\* a faulty variant of Failed: every entry without a match counts as failed
FailedWithoutMatch(rs) ==
    Cardinality({i \in 1..Len(rs) : ~Get(rs[i], "match", FALSE)})

\* verify_checksum_file, lines 148-151
Total(rs) == Len(rs)
Passed(rs) == Cardinality({i \in 1..Len(rs) : Get(rs[i], "match", FALSE)})
Failed(rs) ==
    Cardinality({i \in 1..Len(rs) :
        Get(rs[i], "success", TRUE) /\ ~Get(rs[i], "match", FALSE)})
Errors(rs) == Cardinality({i \in 1..Len(rs) : ~Get(rs[i], "success", TRUE)})

\* verify_checksum_file, lines 104-105
MfCheckExists ==
    /\ pc = "mf_exists"
    /\ IF manifest.kind = "none"
       THEN /\ out' = [success |-> FALSE,
                       error |-> <<"Checksum file not found", checksum_file>>]
            /\ pc' = "done"
       ELSE /\ out' = out
            /\ pc' = "mf_open"
    /\ UNCHANGED <<cwd, fs, op, argVars, calcVars, vresult, mfVars, ghostVars,
                   env_steps>>

\* verify_checksum_file, lines 108-122: the locals are set and the manifest is
\* opened; an open() that raises is caught at line 164
MfOpen ==
    /\ pc = "mf_open"
    /\ results' = <<>>
    /\ base_dir' = BaseDir(checksum_file)
    /\ m_algorithm' = DetectAlgorithm(checksum_file)
    /\ line_num' = 0
    /\ IF manifest.kind = "file"
       THEN /\ mf_open' = TRUE
            /\ out' = out
            /\ pc' = "mf_line"
       ELSE /\ mf_open' = FALSE
            /\ out' = [success |-> FALSE, error |-> <<"OSError", <<"EISDIR">>>>]
            /\ pc' = "done"
    /\ UNCHANGED <<cwd, fs, op, argVars, calcVars, vresult, checksum_file,
                   manifest, filename, ghostVars, env_steps>>

\* verify_checksum_file, lines 123-142: the next line of the manifest is read;
\* it is skipped, recorded as invalid, or verify_checksum is called for it.
\* After the last line the with statement closes the manifest.
MfLine ==
    /\ pc = "mf_line"
    /\ IF line_num = Len(manifest.lines)
       THEN /\ mf_open' = FALSE
            /\ pc' = "mf_summary"
            /\ UNCHANGED <<line_num, results, filename, argVars, calcVars,
                           ghostVars>>
       ELSE LET line == Strip(manifest.lines[line_num + 1])
                parts == Split1(line)
            IN  /\ line_num' = line_num + 1
                /\ mf_open' = mf_open
                /\ IF IsSkipped(line)
                   THEN /\ pc' = "mf_line"
                        /\ UNCHANGED <<results, filename, argVars, calcVars,
                                       ghostVars>>
                   ELSE IF Len(parts) # 2
                   THEN /\ results' = Append(results, InvalidFormat(line_num + 1))
                        /\ pc' = "mf_line"
                        /\ UNCHANGED <<filename, argVars, calcVars, ghostVars>>
                   ELSE /\ expected_hash' = parts[1]
                        /\ filename' = parts[2]
                        /\ file_path' = EntryPath(base_dir, parts[2])
                        /\ algorithm' = m_algorithm
                        /\ chunk_size' = chunk_size
                        /\ alg' = <<>> /\ h' = 0 /\ f' = Closed /\ result' = Unset
                        /\ fed' = <<>> /\ max_held' = 0 /\ reads' = 0
                        /\ opens' = 0 /\ existed' = FALSE
                        /\ results' = results
                        /\ pc' = "calc_alg"
    /\ UNCHANGED <<cwd, fs, op, vresult, checksum_file, manifest, base_dir,
                   m_algorithm, out, env_steps>>

\* verify_checksum_file, lines 143-145
MfAttach ==
    /\ pc = "mf_attach"
    /\ results' = Append(results, Attach(vresult, line_num, filename))
    /\ pc' = "mf_line"
    /\ UNCHANGED <<cwd, fs, op, argVars, calcVars, vresult, checksum_file,
                   manifest, mf_open, base_dir, m_algorithm, line_num, filename,
                   out, ghostVars, env_steps>>

\* verify_checksum_file, lines 148-162
MfSummary ==
    /\ pc = "mf_summary"
    /\ out' = [success |-> TRUE,
               checksum_file |-> checksum_file,
               algorithm |-> m_algorithm,
               total |-> Total(results),
               passed |-> Passed(results),
               failed |-> Failed(results),
               errors |-> Errors(results),
               results |-> results]
    /\ pc' = "done"
    /\ UNCHANGED <<cwd, fs, op, argVars, calcVars, vresult, mfVars, ghostVars,
                   env_steps>>

\* ------------------------------------------------------------ other processes
InCalc == pc \in {"calc_alg", "calc_exists", "calc_open", "calc_read",
                  "calc_close", "calc_size"}

\* another process appends a byte to the file
EnvAppend ==
    /\ InCalc /\ env_steps < MaxEnvSteps
    /\ FileAt(Place).kind = "file"
    /\ \E b \in Bytes :
        /\ fs' = [fs EXCEPT ![Place].data = Append(@, b)]
        /\ f' = IF f.open /\ f.linked THEN [f EXCEPT !.data = Append(@, b)] ELSE f
    /\ env_steps' = env_steps + 1
    /\ UNCHANGED <<cwd, op, pc, argVars, alg, h, result, vresult, mfVars, out,
                   ghostVars>>

\* another process truncates the file to length 0
EnvTruncate ==
    /\ InCalc /\ env_steps < MaxEnvSteps
    /\ FileAt(Place).kind = "file" /\ FileAt(Place).data # <<>>
    /\ fs' = [fs EXCEPT ![Place].data = <<>>]
    /\ f' = IF f.open /\ f.linked THEN [f EXCEPT !.data = <<>>] ELSE f
    /\ env_steps' = env_steps + 1
    /\ UNCHANGED <<cwd, op, pc, argVars, alg, h, result, vresult, mfVars, out,
                   ghostVars>>

\* another process deletes the file; a handle already open keeps its bytes
EnvDelete ==
    /\ InCalc /\ env_steps < MaxEnvSteps
    /\ FileAt(Place).kind = "file"
    /\ fs' = [fs EXCEPT ![Place] = NoFile]
    /\ f' = [f EXCEPT !.linked = FALSE]
    /\ env_steps' = env_steps + 1
    /\ UNCHANGED <<cwd, op, pc, argVars, alg, h, result, vresult, mfVars, out,
                   ghostVars>>

Next ==
    \/ CallCalculateHash
    \/ CallVerifyChecksum
    \/ CallVerifyChecksumFile
    \/ CalcCheckAlgorithm
    \/ CalcCheckExists
    \/ CalcOpen
    \/ CalcRead
    \/ CalcReadError
    \/ CalcClose
    \/ CalcResult
    \/ CalcReturn
    \/ VerifyCompare
    \/ MfCheckExists
    \/ MfOpen
    \/ MfLine
    \/ MfAttach
    \/ MfSummary
    \/ EnvAppend
    \/ EnvTruncate
    \/ EnvDelete

Spec == Init /\ [][Next]_vars

\* =================================================================== claims
\* What the claims speak of, stated on the inputs rather than on the code's
\* own parsing.

\* positions of the characters of a raw line that are not whitespace
NonSpace(r) == {i \in 1..Len(r) : r[i] \notin Whitespace}
BlankLine(r) == NonSpace(r) = {}
FirstNonSpace(r) == r[CHOOSE i \in NonSpace(r) : \A j \in NonSpace(r) : i <= j]
\* a blank line, or one whose first non-space character is #
SkippedLine(r) == BlankLine(r) \/ FirstNonSpace(r) = "#"
\* a single token: no whitespace between two characters that are not
MalformedLine(r) ==
    /\ ~SkippedLine(r)
    /\ \A i \in 1..Len(r) :
        r[i] \in Whitespace =>
            \/ \A j \in NonSpace(r) : j < i
            \/ \A j \in NonSpace(r) : j > i
EntryLine(r) == ~SkippedLine(r) /\ ~MalformedLine(r)

LineNumbers == 1..Len(manifest.lines)
NonSkipped == {n \in LineNumbers : ~SkippedLine(manifest.lines[n])}
Malformed == {n \in LineNumbers : MalformedLine(manifest.lines[n])}
Entries == {n \in LineNumbers : EntryLine(manifest.lines[n])}

\* the digest and the file name an entry line holds, and the file it names
EntryDigest(n) == Split1(Strip(manifest.lines[n]))[1]
EntryName(n) == Split1(Strip(manifest.lines[n]))[2]
EntryFile(n) == FileAt(AbsOf(cwd, JoinPath(DirName(checksum_file), EntryName(n))))

\* the entries whose file can be read, and those of them whose digest differs
Readable == {n \in Entries : EntryFile(n).kind = "file"}
Mismatching ==
    {n \in Readable :
        LowerStr(EntryDigest(n))
            # DigestOf(DetectAlgorithm(checksum_file), EntryFile(n).data)}
\* K, M and J of the claim
K == Cardinality(Readable)
M == Cardinality(Mismatching)
J == Cardinality(Malformed) + Cardinality(Entries \ Readable)

\* verify_checksum_file processed the manifest to completion
ManifestDone == pc = "done" /\ op = "manifest" /\ out.success

\* C1: a manifest processed to completion returns passed + failed + errors =
\* total; a malformed line is counted in errors and never in failed or passed;
\* and when no other process touched the files, total = K + J, passed = K - M,
\* failed = M and errors = J.
C1_Counts ==
    ManifestDone =>
        /\ out.passed + out.failed + out.errors = out.total
        /\ out.errors >= Cardinality(Malformed)
        /\ out.passed + out.failed <= Cardinality(Entries)
        /\ env_steps = 0 =>
            /\ out.total = K + J
            /\ out.passed = K - M
            /\ out.failed = M
            /\ out.errors = J

\* C1 witness: a completed manifest, untouched files, one mismatch among the
\* readable files and one line that is malformed or names a missing file
C1_Witness ==
    /\ ManifestDone /\ env_steps = 0
    /\ K >= 1 /\ M = 1 /\ J = 1
    /\ out.failed = 1 /\ out.errors = 1

\* C2: the results hold exactly one entry for each non-skipped line, in
\* ascending order of the line's 1-based position in the manifest, whatever
\* happened to the lines before it.
C2_OneEntryPerLine ==
    ManifestDone =>
        /\ Len(out.results) = Cardinality(NonSkipped)
        /\ \A i \in 1..Len(out.results) : out.results[i].line \in NonSkipped
        /\ \A i, j \in 1..Len(out.results) :
            i < j => out.results[i].line < out.results[j].line

\* C2 witness: a malformed first line, and the second line still verified
C2_Witness ==
    /\ ManifestDone
    /\ Len(out.results) = 2
    /\ 1 \in Malformed
    /\ out.results[1].line = 1 /\ ~out.results[1].success
    /\ out.results[2].line = 2 /\ out.results[2].success

\* the algorithm the claim infers from a base file name
InferredFrom(name) ==
    IF Contains(name, <<"m", "d", "5">>) THEN <<"m", "d", "5">>
    ELSE IF Contains(name, <<"s", "h", "a", "1">>) THEN <<"s", "h", "a", "1">>
    ELSE IF Contains(name, <<"s", "h", "a", "5", "1", "2">>)
         THEN <<"s", "h", "a", "5", "1", "2">>
    ELSE <<"s", "h", "a", "2", "5", "6">>

\* the base file name of a path: what follows its last slash
AfterLastSlash(p) ==
    LET slashes == {i \in 1..Len(p) : p[i] = "/"}
        last == IF slashes = {} THEN 0
                ELSE CHOOSE i \in slashes : \A j \in slashes : j <= i
    IN  [i \in 1..(Len(p) - last) |-> p[last + i]]

\* C3: the algorithm is inferred from the lowercased base file name of the
\* manifest in the order md5, sha1, sha512, else sha256; it is the one the
\* ManifestResult reports and the one every entry is verified with.
C3_Algorithm ==
    ManifestDone =>
        /\ out.algorithm = InferredFrom(LowerStr(AfterLastSlash(checksum_file)))
        /\ checksum_file = <<"S", "H", "A", "5", "1", "2", "S", "U", "M", "S">>
            => out.algorithm = SHA512
        /\ checksum_file = <<"m", "d", "5", "s", "u", "m", ".", "t", "x", "t">>
            => out.algorithm = MD5
        /\ checksum_file
                = <<"c", "h", "e", "c", "k", "s", "u", "m", "s", ".", "t", "x", "t">>
            => out.algorithm = SHA256
        /\ \A i \in 1..Len(out.results) :
            LET r == out.results[i]
            IN  "match" \in DOMAIN r =>
                    /\ r.algorithm = out.algorithm
                    /\ env_steps = 0 =>
                        r.calculated_hash
                            = DigestOf(out.algorithm,
                                       FileAt(AbsOf(cwd, r.file_path)).data)

\* C3 witness: a name holding both sha1 and MD5, inferred as md5, and an
\* entry whose md5 digest matched
C3_Witness ==
    /\ ManifestDone /\ env_steps = 0
    /\ checksum_file = <<"s", "/", "s", "h", "a", "1", "M", "D", "5">>
    /\ out.algorithm = MD5
    /\ out.passed >= 1

\* the directory that contains the manifest, as a place
ManifestDir ==
    LET place == AbsOf(cwd, checksum_file)
        slashes == {i \in 1..Len(place) : place[i] = "/"}
        last == CHOOSE i \in slashes : \A j \in slashes : j <= i
    IN  IF last = 1 THEN <<"/">> ELSE SubSeq(place, 1, last - 1)

\* the file of that name inside the manifest's directory
InManifestDir(name) == Norm(ManifestDir \o <<"/">> \o name)

\* verify_checksum_file is verifying the entry of the current line
VerifyingEntry ==
    /\ op = "manifest"
    /\ pc \in {"calc_alg", "calc_exists", "calc_open", "calc_read", "calc_close",
               "calc_size", "calc_ret", "ver_cmp", "mf_attach"}

\* C4 as claimed: for every file name token, the file verified is the one of
\* that name in the directory containing the manifest.
C4_AsClaimed == VerifyingEntry => Place = InManifestDir(filename)

\* C4 amended: a file name token that is not an absolute path is looked up in
\* the directory containing the manifest, whatever the working directory is;
\* an absolute token is verified as it stands.
C4_RelativeToManifest ==
    VerifyingEntry =>
        IF filename[1] = "/"
        THEN Place = Norm(filename)
        ELSE Place = InManifestDir(filename)

\* C4 witness: subdirectory manifest, called from another working directory,
\* with the file of the entry opened in the manifest's directory
C4_Witness ==
    /\ VerifyingEntry /\ pc = "calc_read"
    /\ cwd = <<"/", "w">>
    /\ checksum_file = <<"s", "/", "s", "h", "a", "1">>
    /\ filename = <<"a">>
    /\ Place = <<"/", "w", "/", "s", "/", "a">>

\* verify_checksum returned
VerifyDone == pc = "done" /\ op = "verify"

\* C5: when calculate_hash succeeded, verify_checksum returns success with
\* match exactly when the two digests are equal once lowercased, whatever the
\* expected string; when it failed, verify_checksum returns that very result.
C5_Verify ==
    VerifyDone =>
        IF result.success
        THEN /\ out.success
             /\ out.match = (LowerStr(expected_hash) = LowerStr(result.hash_value))
             /\ env_steps = 0 =>
                    out.match = (LowerStr(expected_hash)
                                    = DigestOf(LowerStr(algorithm), FileAt(Place).data))
        ELSE /\ out = result
             /\ ~out.success
             /\ DOMAIN out = {"success", "error"}

\* C5 witness: an expected digest with an upper-case letter that matched
C5_Witness ==
    /\ VerifyDone /\ out.success /\ out.match
    /\ expected_hash # LowerStr(expected_hash)

\* C6: a blank line or a line whose first non-space character is # gets no
\* entry and is counted nowhere; a manifest of such lines only, or of no
\* line, returns success with all four counts 0 and no entry.
C6_SkippedLines ==
    (pc = "done" /\ op = "manifest" /\ manifest.kind = "file") =>
        /\ out.success
        /\ out.total = Cardinality(NonSkipped)
        /\ \A i \in 1..Len(out.results) :
            ~SkippedLine(manifest.lines[out.results[i].line])
        /\ NonSkipped = {} =>
            /\ out.total = 0 /\ out.passed = 0 /\ out.failed = 0 /\ out.errors = 0
            /\ out.results = <<>>

\* C6 witness: a manifest of a comment and a blank line, processed
C6_Witness ==
    /\ pc = "done" /\ op = "manifest" /\ manifest.kind = "file"
    /\ Len(manifest.lines) = 2
    /\ \E n \in LineNumbers : ~BlankLine(manifest.lines[n])
    /\ \E n \in LineNumbers : BlankLine(manifest.lines[n])
    /\ NonSkipped = {}
    /\ out.total = 0

\* calculate_hash is past its test of the path
PastExistsCheck ==
    /\ op \in {"calc", "verify"}
    /\ pc \notin {"idle", "calc_alg", "calc_exists"}
    /\ LowerStr(algorithm) \in supported_algorithms

FileNotFound == [success |-> FALSE, error |-> <<"File not found", file_path>>]

\* C7: with a supported algorithm and a path at which nothing exists,
\* calculate_hash goes from its test straight to returning the file-not-found
\* result, without any open() or read(), and verify_checksum returns the same.
C7_FileNotFound ==
    (PastExistsCheck /\ (~existed \/ (env_steps = 0 /\ FileAt(Place).kind = "none"))) =>
        /\ pc \in {"calc_ret", "ver_cmp", "done"}
        /\ result = FileNotFound
        /\ opens = 0 /\ reads = 0 /\ ~f.open
        /\ pc = "done" => out = FileNotFound

\* C7 witness: verify_checksum returned for a path at which nothing exists
C7_Witness ==
    /\ PastExistsCheck /\ pc = "done" /\ op = "verify"
    /\ FileAt(Place).kind = "none" /\ env_steps = 0
    /\ out = FileNotFound

\* C8 as claimed: a successful calculate_hash reports as file_size the number
\* of bytes its read loop read and fed to the digest.
C8_AsClaimed ==
    (pc \in {"calc_ret", "ver_cmp", "done"} /\ op = "calc" /\ result.success) =>
        result.file_size = Len(fed)

\* C9 as claimed: the engine never holds more than one open file handle, and
\* none when the operation has returned.
C9_AsClaimed ==
    /\ Handles <= 1
    /\ pc = "done" => Handles = 0

\* C9 amended: calculate_hash and verify_checksum hold at most one open
\* handle; verify_checksum_file holds its manifest open and, while an entry is
\* read, that entry's file as well: at most two, one data file at a time.
\* The data file is open only in the read loop, and no handle is open when
\* an operation has returned, on any path.
C9_Handles ==
    /\ op # "manifest" => Handles <= 1
    /\ Handles <= 2
    /\ f.open => pc \in {"calc_read", "calc_close"}
    /\ mf_open => (op = "manifest" /\ pc \notin {"mf_summary", "done"})
    /\ pc = "done" => Handles = 0

\* C9 witness: a manifest returned after a read of an entry's file failed
C9_Witness ==
    /\ ManifestDone /\ Handles = 0
    /\ \E i \in 1..Len(out.results) :
        /\ ~out.results[i].success
        /\ out.results[i].error = <<"OSError", <<"EIO">>>>

\* the number of turns the read loop takes over n bytes in chunks of c
Turns(n, c) == (n + c - 1) \div c + 1

\* C10: on an unchanging file and for every chunk size, the read loop never
\* holds more than one chunk of at most that size, feeds the digest the bytes
\* of the file read so far, once and in order, can always take its next turn
\* and ends after a bounded number of turns having fed the whole file, so the
\* digest is that of the file's bytes whatever the chunk size.
C10_ReadLoop ==
    (op \in {"calc", "verify"} /\ env_steps = 0) =>
        /\ max_held <= chunk_size
        /\ pc = "calc_read" =>
            /\ ENABLED CalcRead
            /\ fed = SubSeq(FileAt(Place).data, 1, f.pos)
            /\ h = HashUpdate(NewHash(alg), fed)
            /\ reads < Turns(Len(FileAt(Place).data), chunk_size)
        /\ pc = "calc_close" =>
            /\ fed = FileAt(Place).data
            /\ reads = Turns(Len(FileAt(Place).data), chunk_size)
        /\ (pc \in {"calc_ret", "ver_cmp", "done"} /\ result.success) =>
            result.hash_value = DigestOf(LowerStr(algorithm), FileAt(Place).data)

\* C10 witness: a file of three bytes read to its end in chunks of two bytes:
\* a full chunk, a short one and the empty read that ends the loop
C10_Witness ==
    /\ op = "calc" /\ env_steps = 0 /\ pc = "calc_close"
    /\ chunk_size = 2 /\ Len(fed) = 3 /\ max_held = 2 /\ reads = 3

====
